---- MODULE Spec2Model ----
(***************************************************************************)
(* Model of app.py, the Gemini SQL query chatbot.                          *)
(*                                                                         *)
(* One script run handles one chat input.  A run is modelled as the        *)
(* sequence of the calls it makes (connect_to_db, get_gemini_response,     *)
(* read_sql_query, the presentation branch of get_response,                *)
(* sql_to_natural_language, the final append); pc is the position of the   *)
(* run.  The two external services (the language model and the MySQL       *)
(* server) are the environment: what they answer in a call is chosen with  *)
(* \E.  An exception that no handler of app.py catches ends the run; the   *)
(* session state (chat_history, db) survives it.                           *)
(***************************************************************************)
EXTENDS Integers, Sequences, FiniteSets, TLC

\* ------------------------------------------------------------------ bounds
MaxTurns == 3
MaxRows == 12
MaxCols == 7

\* ------------------------------------------------------- program constants
MAX_DISPLAY_ROWS == 10
table == 60
SampleRows == 10

\* ------------------------------------------------------------------ values
\* An optional value: None, or Some(x).
None == <<>>
Some(x) == <<x>>
Get(o) == o[1]

\* st.session_state.db: None, or the connection object (named by the number of
\* the mysql.connector.connect call that made it).
NoConn == 0

\* Texts are sequences of characters.
Whitespace == {" "}

RECURSIVE lstrip(_)
lstrip(s) ==
    IF s = <<>> THEN s
    ELSE IF Head(s) \in Whitespace THEN lstrip(Tail(s)) ELSE s

RECURSIVE rstrip(_)
rstrip(s) ==
    IF s = <<>> THEN s
    ELSE IF s[Len(s)] \in Whitespace THEN rstrip(SubSeq(s, 1, Len(s) - 1)) ELSE s

strip(s) == rstrip(lstrip(s))

\* What st.chat_input can return in a run: None (nothing submitted) or a text.
ChatInputs ==
    {None} \cup {Some(t) : t \in {<<>>, <<" ">>, <<"a">>, <<" ", "b", " ">>}}

\* The texts the language model answers with.
ModelTexts == {<<"summary">>}
FALLBACK == <<"Unable to generate summary due to an error in response format.">>
NO_RESULTS == <<"No results found or error in query execution.">>

\* The SQL text the model generates either parses on the server or does not.
SqlTexts == {"valid_sql", "invalid_sql"}

\* A DataFrame is its shape.
DataFrame(r, c) == [rows |-> r, cols |-> c]
EmptyDataFrame == DataFrame(0, 0)
empty(df) == df.rows = 0 \/ df.cols = 0
len(df) == df.rows
Min(a, b) == IF a < b THEN a ELSE b
head(df, n) == DataFrame(Min(df.rows, n), df.cols)

\* How the database answers one read_sql_query call: the step that raises (or
\* none), the class of the exception, and the shape of the result set.
FailPoints == {"cursor", "execute", "fetchall", "description"}
ExcKinds == {"mysql", "other"}
DbAnswers ==
    {[fail_at |-> "none", kind |-> "none", rows |-> r, cols |-> c] :
        r \in 0..MaxRows, c \in 1..MaxCols}
    \cup {[fail_at |-> f, kind |-> k, rows |-> 0, cols |-> 0] :
        f \in FailPoints, k \in ExcKinds}

\* How the language model answers the summary request.
\*   text          response.text is a string
\*   no_text       the response has no attribute text (AttributeError)
\*   text_raises   reading response.text raises another exception
\*   call_raises   generate_content itself raises (no response at all)
SummaryAnswers == {"text", "no_text", "text_raises", "call_raises"}

VARIABLES
    chat_history,    \* st.session_state.chat_history
    db,              \* st.session_state.db
    connects,        \* number of mysql.connector.connect calls so far
    pc,              \* position of the current script run
    user_query,      \* the run's chat input
    db_connection,   \* the run's local db_connection
    sql_query,       \* get_response's local sql_query
    df_response,     \* get_response's local df_response
    response,        \* the run's local response
    st_error,        \* st.error shown by this run
    st_table,        \* rows shown by st.table in this run
    download_button, \* rows of the workbook offered by st.download_button
    exec,            \* outcome of this run's read_sql_query call
    summary,         \* outcome of this run's sql_to_natural_language call
    status           \* how the last run ended

vars == <<chat_history, db, connects, pc, user_query, db_connection, sql_query,
          df_response, response, st_error, st_table, download_button, exec,
          summary, status>>

\* ------------------------------------------------------------- pure helpers

ConversationTurn(sender, content) == [sender |-> sender, content |-> content]

\* Faulty variant: the log is assigned the new turn instead of being appended to.
append_overwrite(log, turn) == <<turn>>

append(log, turn) == Append(log, turn)

Humans(log) == Cardinality({i \in 1..Len(log) : log[i].sender = "Human"})

\* Faulty variant: the threshold itself already counts as exceeded.
is_token_limit_exceeded_ge(df, threshold) ==
    LET total_cells == len(df) * df.cols
    IN total_cells >= threshold

\* lines 133-135
is_token_limit_exceeded(df, threshold) ==
    LET total_cells == len(df) * df.cols
    IN total_cells > threshold

\* lines 126-131: the workbook holds df, every row of it.
create_excel_download(df) == len(df)

\* Faulty variant: the check for an existing connection is missing.
connect_to_db_always(session_db, n, ok) ==
    IF ok
    THEN [db |-> n + 1, ret |-> n + 1, connects |-> n + 1, err |-> "none"]
    ELSE [db |-> NoConn, ret |-> NoConn, connects |-> n + 1, err |-> "connect"]

\* lines 137-150.  ok: whether mysql.connector.connect succeeds when called.
connect_to_db(session_db, n, ok) ==
    IF session_db = NoConn
    THEN IF ok
         THEN [db |-> n + 1, ret |-> n + 1, connects |-> n + 1, err |-> "none"]
         ELSE [db |-> NoConn, ret |-> NoConn, connects |-> n + 1, err |-> "connect"]
    ELSE [db |-> session_db, ret |-> session_db, connects |-> n, err |-> "none"]

\* lines 63-76, with Python's try/except/finally order.
read_sql_query(sql, ans) ==
    LET cursor_bound == ans.fail_at # "cursor"
        \* the exception leaving the try body
        exc == IF ans.fail_at = "cursor" THEN ans.kind
               ELSE IF sql = "invalid_sql" THEN "mysql"
               ELSE IF ans.fail_at # "none" THEN ans.kind
               ELSE "none"
        failed_at == IF ans.fail_at = "cursor" THEN "cursor"
                     ELSE IF sql = "invalid_sql" THEN "execute"
                     ELSE ans.fail_at
        \* except mysql.connector.Error
        handled == exc = "mysql"
        pending == IF exc = "other" THEN "other" ELSE "none"
        ret == IF exc = "none" THEN Some(DataFrame(ans.rows, ans.cols))
               ELSE IF handled THEN Some(EmptyDataFrame)
               ELSE None
        \* finally: cursor.close()
        close == IF cursor_bound THEN "closed" ELSE "UnboundLocalError"
        raised == IF close = "UnboundLocalError" THEN "UnboundLocalError" ELSE pending
    IN [failed_at |-> failed_at,
        exc |-> exc,
        reported |-> handled,
        opened |-> IF cursor_bound THEN 1 ELSE 0,
        closed |-> IF close = "closed" THEN 1 ELSE 0,
        close |-> close,
        raised |-> raised,
        ret |-> IF raised = "none" THEN ret ELSE None]

\* lines 79-124.  The model call (line 119) is outside the try.
sql_to_natural_language(results, ans, text) ==
    LET result_sample == head(results, SampleRows)
    IN IF ans = "call_raises"
       THEN [sample |-> len(result_sample), raised |-> TRUE, ret |-> None]
       ELSE IF ans = "text"
       THEN [sample |-> len(result_sample), raised |-> FALSE, ret |-> Some(text)]
       ELSE IF ans = "no_text"
       THEN [sample |-> len(result_sample), raised |-> FALSE, ret |-> Some(FALLBACK)]
       ELSE [sample |-> len(result_sample), raised |-> TRUE, ret |-> None]

\* ------------------------------------------------------------------- state

Init ==
    /\ chat_history = <<>>
    /\ db = NoConn
    /\ connects = 0
    /\ pc = "idle"
    /\ user_query = None
    /\ db_connection = NoConn
    /\ sql_query = None
    /\ df_response = None
    /\ response = None
    /\ st_error = "none"
    /\ st_table = None
    /\ download_button = None
    /\ exec = None
    /\ summary = None
    /\ status = "none"

\* A script run starts with nothing rendered and no locals.
FreshRun ==
    /\ db_connection' = NoConn
    /\ sql_query' = None
    /\ df_response' = None
    /\ response' = None
    /\ st_error' = "none"
    /\ st_table' = None
    /\ download_button' = None
    /\ exec' = None
    /\ summary' = None

\* An exception no handler catches ends the run; the locals are gone.
Uncaught ==
    /\ pc' = "idle"
    /\ status' = "exception"
    /\ db_connection' = NoConn
    /\ sql_query' = None
    /\ df_response' = None
    /\ response' = None

\* lines 198-199: a run whose input is None or blank does nothing.
IgnoreInput ==
    /\ pc = "idle"
    /\ \E q \in ChatInputs :
        /\ ~(q # None /\ strip(Get(q)) # <<>>)
        /\ user_query' = q
    /\ FreshRun
    /\ status' = "ignored"
    /\ UNCHANGED <<chat_history, db, connects, pc>>

\* lines 198-205: a non-empty question is appended as the Human turn.
SubmitQuestion ==
    /\ pc = "idle"
    /\ Humans(chat_history) < MaxTurns
    /\ \E q \in ChatInputs :
        /\ q # None /\ strip(Get(q)) # <<>>
        /\ user_query' = q
        /\ chat_history' = append(chat_history, ConversationTurn("Human", Get(q)))
    /\ FreshRun
    /\ pc' = "connect"
    /\ status' = "running"
    /\ UNCHANGED <<db, connects>>

\* Faulty variant: the pipeline runs whatever connect_to_db returned.
Connect_unguarded ==
    /\ pc = "connect"
    /\ \E ok \in BOOLEAN :
        LET c == connect_to_db(db, connects, ok)
        IN /\ db' = c.db
           /\ connects' = c.connects
           /\ db_connection' = c.ret
           /\ st_error' = c.err
           /\ pc' = "generate"
           /\ status' = status
    /\ UNCHANGED <<chat_history, user_query, sql_query, df_response, response,
                   st_table, download_button, exec, summary>>

\* lines 208-209
Connect ==
    /\ pc = "connect"
    /\ \E ok \in BOOLEAN :
        LET c == connect_to_db(db, connects, ok)
        IN /\ db' = c.db
           /\ connects' = c.connects
           /\ db_connection' = c.ret
           /\ st_error' = c.err
           /\ IF c.ret # NoConn
              THEN pc' = "generate" /\ status' = status
              ELSE pc' = "idle" /\ status' = "aborted"
    /\ UNCHANGED <<chat_history, user_query, sql_query, df_response, response,
                   st_table, download_button, exec, summary>>

\* lines 58-61 and 153: the model returns SQL text ...
GenerateQuery ==
    /\ pc = "generate"
    /\ \E sql \in SqlTexts : sql_query' = Some(sql)
    /\ pc' = "execute"
    /\ UNCHANGED <<chat_history, db, connects, user_query, db_connection,
                   df_response, response, st_error, st_table, download_button,
                   exec, summary, status>>

\* ... or the call raises, and nothing in app.py catches it.
GenerateFails ==
    /\ pc = "generate"
    /\ Uncaught
    /\ UNCHANGED <<chat_history, db, connects, user_query, st_error, st_table,
                   download_button, exec, summary>>

\* line 154
ExecuteQuery ==
    /\ pc = "execute"
    /\ \E ans \in DbAnswers :
        LET r == read_sql_query(Get(sql_query), ans)
        IN /\ exec' = Some(r)
           /\ st_error' = IF r.reported THEN "sql" ELSE st_error
           /\ IF r.raised = "none"
              THEN /\ df_response' = r.ret
                   /\ pc' = "present"
                   /\ UNCHANGED <<db_connection, sql_query, response, status>>
              ELSE Uncaught
    /\ UNCHANGED <<chat_history, db, connects, user_query, st_table,
                   download_button, summary>>

\* lines 156-166 and 170-171
Present ==
    /\ pc = "present"
    /\ LET df == Get(df_response)
       IN IF ~empty(df)
          THEN /\ IF is_token_limit_exceeded(df, table)
                  THEN /\ download_button' = Some(create_excel_download(df))
                       /\ st_table' = st_table
                  ELSE /\ st_table' = Some(len(df))
                       /\ download_button' = download_button
               /\ pc' = "summarize"
               /\ response' = response
          ELSE /\ response' = Some(NO_RESULTS)
               /\ pc' = "reply"
               /\ UNCHANGED <<st_table, download_button>>
    /\ UNCHANGED <<chat_history, db, connects, user_query, db_connection,
                   sql_query, df_response, st_error, exec, summary, status>>

\* lines 168-169
Summarize ==
    /\ pc = "summarize"
    /\ \E ans \in SummaryAnswers, text \in ModelTexts :
        LET s == sql_to_natural_language(Get(df_response), ans, text)
        IN /\ summary' = Some([answer |-> ans, sample |-> s.sample,
                               raised |-> s.raised, ret |-> s.ret])
           /\ IF s.raised
              THEN Uncaught
              ELSE /\ response' = s.ret
                   /\ pc' = "reply"
                   /\ UNCHANGED <<db_connection, sql_query, df_response, status>>
    /\ UNCHANGED <<chat_history, db, connects, user_query, st_error, st_table,
                   download_button, exec>>

\* Faulty variant: the response is logged with the sender of line 201.
Reply_as_human ==
    /\ pc = "reply"
    /\ chat_history' = append(chat_history, ConversationTurn("Human", Get(response)))
    /\ pc' = "idle"
    /\ status' = "completed"
    /\ db_connection' = NoConn
    /\ sql_query' = None
    /\ df_response' = None
    /\ response' = None
    /\ UNCHANGED <<db, connects, user_query, st_error, st_table, download_button,
                   exec, summary>>

\* lines 211-215: the AI turn is appended and the run ends.
Reply ==
    /\ pc = "reply"
    /\ chat_history' = append(chat_history, ConversationTurn("AI", Get(response)))
    /\ pc' = "idle"
    /\ status' = "completed"
    /\ db_connection' = NoConn
    /\ sql_query' = None
    /\ df_response' = None
    /\ response' = None
    /\ UNCHANGED <<db, connects, user_query, st_error, st_table, download_button,
                   exec, summary>>

Next ==
    \/ IgnoreInput
    \/ SubmitQuestion
    \/ Connect
    \/ GenerateQuery
    \/ GenerateFails
    \/ ExecuteQuery
    \/ Present
    \/ Summarize
    \/ Reply

Spec == Init /\ [][Next]_vars

\* ------------------------------------------------------------------ claims

Last(log) == log[Len(log)]
Cells(df) == df.rows * df.cols
PipelineSteps == {"generate", "execute", "present", "summarize", "reply"}

\* C1: a run that accepts a non-empty question appends exactly the Human turn
\* of that question when it starts and nothing else until it completes; a run
\* that completes appends exactly one AI turn, directly after the Human turn
\* of its own question; a run completes only through that append.
C1_TurnAppendsHumanThenAI ==
    [][ /\ (pc = "idle" /\ pc' # "idle") =>
              chat_history' = Append(chat_history,
                                     [sender |-> "Human", content |-> Get(user_query')])
        /\ (pc = "idle" /\ pc' = "idle") => chat_history' = chat_history
        /\ (pc \notin {"idle", "reply"}) => chat_history' = chat_history
        /\ (pc = "reply") =>
              /\ Last(chat_history) = [sender |-> "Human", content |-> Get(user_query)]
              /\ chat_history' = Append(chat_history,
                                        [sender |-> "AI", content |-> Get(response)])
              /\ status' = "completed"
        /\ (status' = "completed" /\ status # "completed") => pc = "reply"
      ]_vars

\* C1 witness: two completed turns are in the log as Human, AI, Human, AI.
C1_Witness ==
    /\ status = "completed"
    /\ Len(chat_history) = 4
    /\ \A i \in 1..4 : chat_history[i].sender = IF i % 2 = 1 THEN "Human" ELSE "AI"
    /\ chat_history[4].content \in ModelTexts

\* C2: when the execution of the SQL text fails with a database-level error,
\* read_sql_query reports the error, returns an empty result and raises
\* nothing.
C2_ExecutionFailureGivesEmptyResult ==
    (exec # None /\ Get(exec).exc = "mysql") =>
        /\ Get(exec).raised = "none"
        /\ Get(exec).reported
        /\ Get(exec).ret = Some(EmptyDataFrame)

\* C3: no pipeline step runs without a connection: a run is in the pipeline
\* only while the session holds the connection the run was given; a run whose
\* connection attempt failed shows the connection error and ends with no model
\* call, no SQL execution, nothing presented and no response.
C3_NoPipelineWithoutConnection ==
    /\ pc \in PipelineSteps => (db # NoConn /\ db_connection = db)
    /\ db = NoConn => (sql_query = None /\ exec = None /\ summary = None)
    /\ status = "aborted" =>
          /\ pc = "idle"
          /\ db = NoConn
          /\ st_error = "connect"
          /\ sql_query = None /\ exec = None /\ summary = None
          /\ st_table = None /\ download_button = None /\ response = None

\* C3 witness: a run was aborted by a failed connection attempt.
C3_Witness ==
    /\ status = "aborted"
    /\ connects > 0
    /\ Len(chat_history) > 0

\* C4 (as amended): for every non-empty result, the export path alone is
\* taken when rows x columns > threshold and the inline path alone when
\* rows x columns <= threshold.
C4_NonEmptyResultTakesOnePath ==
    (pc \in {"summarize", "reply"} /\ df_response # None /\ ~empty(Get(df_response))) =>
        /\ Cells(Get(df_response)) > table =>
              (download_button # None /\ st_table = None)
        /\ Cells(Get(df_response)) <= table =>
              (st_table # None /\ download_button = None)

\* C4 witness: a result of exactly threshold cells was rendered inline.
C4_Witness ==
    /\ pc = "summarize"
    /\ Cells(Get(df_response)) = table
    /\ st_table # None
    /\ download_button = None

\* C4 (as claimed): for every result, empty ones included, exactly one of the
\* two paths is taken, the inline one when rows x columns <= threshold.
C4_EveryResultTakesOnePath ==
    (pc \in {"summarize", "reply"} /\ df_response # None) =>
        /\ Cells(Get(df_response)) > table =>
              (download_button # None /\ st_table = None)
        /\ Cells(Get(df_response)) <= table =>
              (st_table # None /\ download_button = None)

\* C5: inline rendering shows at most MAX_DISPLAY_ROWS rows, and the exported
\* workbook holds every row of the result.
C5_InlineAtMostMaxDisplayRows ==
    /\ st_table # None => Get(st_table) <= MAX_DISPLAY_ROWS
    /\ download_button # None =>
          Get(download_button) = len(Get(Get(exec).ret))

\* C6: whenever the model's answer to the summary request is malformed or
\* absent, sql_to_natural_language returns the fallback string and raises
\* nothing.
C6_FallbackOnBadResponse ==
    (summary # None /\ Get(summary).answer # "text") =>
        /\ ~Get(summary).raised
        /\ Get(summary).ret = Some(FALLBACK)

\* C7: a run that accepted a question is back in Idle only after an AI turn
\* (summary, fallback or error text) was appended to the log.
C7_IdleOnlyAfterAnswerLogged ==
    (pc = "idle" /\ status \in {"completed", "aborted", "exception"}) =>
        /\ Len(chat_history) > 0
        /\ Last(chat_history).sender = "AI"

\* C8: the log is append-only: no step shortens it or changes a turn that is
\* already in it.
C8_LogAppendOnly ==
    [][ /\ Len(chat_history') >= Len(chat_history)
        /\ \A i \in 1..Len(chat_history) : chat_history'[i] = chat_history[i]
      ]_vars

\* C8 witness: the log holds turns of a completed and of a failed run.
C8_Witness ==
    /\ Len(chat_history) >= 3
    /\ status = "exception"
    /\ \E i \in 1..Len(chat_history) : chat_history[i].sender = "AI"

\* C9: after read_sql_query, every cursor the call opened is closed and the
\* release step did not fail.
C9_CursorAlwaysReleased ==
    exec # None =>
        /\ Get(exec).opened = Get(exec).closed
        /\ Get(exec).close # "UnboundLocalError"

\* C10: a connection is attempted only by connect_to_db and only while the
\* session holds none; a held connection is never replaced and is the one
\* every later run is given; a failed attempt leaves the session without a
\* connection and ends the run.
C10_ConnectLazilyOnce ==
    [][ /\ db # NoConn => (db' = db /\ connects' = connects)
        /\ connects' # connects =>
              (pc = "connect" /\ db = NoConn /\ connects' = connects + 1)
        /\ (pc = "connect" /\ pc' # "connect") =>
              /\ db_connection' = db'
              /\ db = NoConn => connects' = connects + 1
              /\ (db' = NoConn) <=> (pc' = "idle")
        /\ pc # "connect" => db' = db
      ]_vars

\* C10 witness: after a failed attempt and a successful one, a later run is
\* given the stored connection without connecting again.
C10_Witness ==
    /\ pc = "generate"
    /\ Humans(chat_history) = 3
    /\ connects = 2
    /\ db = 2
    /\ db_connection = db

====
